---- MODULE Spec2Model ----
(***************************************************************************)
(* The carbon-cost backend (src/backend/app.py): an append-only table of   *)
(* Emission rows behind three Flask handlers, POST /record, GET /stats and *)
(* GET /latest_co2_badge.                                                  *)
(*                                                                         *)
(* Numbers: a JSON number n is modelled by the integer 1000 * n            *)
(* (thousandths), so that 0.1 kg is 100 and 30.5 s is 30500.  The Float    *)
(* column co2 keeps thousandths; the Integer column duration keeps whole   *)
(* seconds.  Sums are exact (binary floating-point rounding is not         *)
(* modelled).                                                              *)
(*                                                                         *)
(* Time: an ISO-8601 text is the pair of its wall-clock reading (a day     *)
(* number of January 2024, at 00:00:00) and its zone designator.  The      *)
(* DateTime column keeps the wall-clock reading only.                      *)
(*                                                                         *)
(* The database is taken to be reachable: the only storage failure         *)
(* modelled is the one the data can cause, a NOT NULL violation.           *)
(***************************************************************************)
EXTENDS Integers, Sequences, FiniteSets, TLC

VARIABLES
    store,          \* the emission table, rows in insertion (id) order
    request,        \* the last request a handler answered
    response,       \* the answer it gave
    pc,             \* position of the in-flight stats() handler
    emissions,      \* stats(): its local list of rows (line 67)
    badge_counts    \* stats(): the counts queried so far (lines 72-75)

vars == <<store, request, response, pc, emissions, badge_counts>>

\* The table holds at most MaxStore rows in the model.
MaxStore == 3

-----------------------------------------------------------------------------
(* JSON values as request.json delivers them and jsonify renders them.      *)

Str(s) == [str |-> s]
Num(n) == [num |-> n]
Null == [null |-> TRUE]
\* A string holding an ISO-8601 date-time: wall-clock reading and designator.
Iso(wall, tz) == [iso |-> wall, tz |-> tz]

IsNum(v) == "num" \in DOMAIN v
IsText(v) == "str" \in DOMAIN v
IsIso(v) == "iso" \in DOMAIN v

Ok(v) == [ok |-> TRUE, v |-> v]
Raise(e) == [ok |-> FALSE, err |-> e]

\* dict.get(key, default)
Get(data, key, default) == IF key \in DOMAIN data THEN data[key] ELSE default

\* The decimal texts used as inputs, with the number each one denotes.
NumericText == ("0.1" :> 100) @@ ("30" :> 30000) @@ ("30.5" :> 30500)
\* Those of them that are integer literals (int() takes no other text).
IntegerText == {"30"}

\* float(x)
float(x) ==
    IF IsNum(x) THEN Ok(x.num)
    ELSE IF IsText(x)
         THEN IF x.str \in DOMAIN NumericText
              THEN Ok(NumericText[x.str]) ELSE Raise("ValueError")
    ELSE IF IsIso(x) THEN Raise("ValueError")
    ELSE Raise("TypeError")

\* int(x): a number is truncated toward zero; a text must be an integer literal.
int(x) ==
    IF IsNum(x)
    THEN Ok(IF x.num >= 0 THEN x.num \div 1000 ELSE -((-x.num) \div 1000))
    ELSE IF IsText(x)
         THEN IF x.str \in IntegerText
              THEN Ok(NumericText[x.str] \div 1000) ELSE Raise("ValueError")
    ELSE IF IsIso(x) THEN Raise("ValueError")
    ELSE Raise("TypeError")

\* s.replace('Z', '+00:00'); a value that is no string has no such method.
replace_Z(s) ==
    IF IsIso(s) THEN Ok(IF s.tz = "Z" THEN Iso(s.iso, "+00:00") ELSE s)
    ELSE IF IsText(s) THEN Ok(s)
    ELSE Raise("AttributeError")

\* The designators datetime.fromisoformat takes (no 'Z' before Python 3.11).
Offsets == {"", "+00:00", "+05:00"}

fromisoformat_lenient(s) ==
    IF IsIso(s) /\ s.tz \in Offsets
    THEN Ok([wall |-> s.iso, offset |-> s.tz])
    ELSE Ok([wall |-> 1, offset |-> ""])

\* datetime.fromisoformat(s): an aware or naive datetime, or ValueError.
fromisoformat(s) ==
    IF IsIso(s) /\ s.tz \in Offsets
    THEN Ok([wall |-> s.iso, offset |-> s.tz])
    ELSE Raise("ValueError")

\* datetime.isoformat() of the naive datetime a DateTime column returns.
isoformat(wall) == Iso(wall, "")

-----------------------------------------------------------------------------
(* The Emission model and the session.                                      *)

StringColumns == {"repo", "owner", "run_id", "machine_type", "badge"}

\* Emission(...) as record() builds it (lines 38-47): keyword arguments are
\* evaluated in order, the first conversion that raises ends the handler.
Emission(data) ==
    LET co2 == float(Get(data, "co2", Num(0)))
        duration == int(Get(data, "duration", Num(0)))
        text == replace_Z(Get(data, "timestamp", Str("")))
        timestamp == IF text.ok THEN fromisoformat(text.v) ELSE text
    IN  IF ~co2.ok THEN co2
        ELSE IF ~duration.ok THEN duration
        ELSE IF ~timestamp.ok THEN timestamp
        ELSE Ok([repo |-> Get(data, "repo", Str("")),
                 owner |-> Get(data, "owner", Str("")),
                 run_id |-> Get(data, "run_id", Str("")),
                 co2 |-> co2.v,
                 duration |-> duration.v,
                 machine_type |-> Get(data, "machine_type", Str("")),
                 badge |-> Get(data, "badge", Str("")),
                 timestamp |-> timestamp.v])

\* db.session.add + commit (lines 49-50): nullable=False columns reject None;
\* the DateTime column keeps the wall-clock reading and drops the offset;
\* the primary key is the next integer.
commit(rows, emission) ==
    IF \E c \in StringColumns : emission[c] = Null
    THEN Raise("IntegrityError")
    ELSE Ok(Append(rows,
                   [id |-> Len(rows) + 1,
                    repo |-> emission.repo.str,
                    owner |-> emission.owner.str,
                    run_id |-> emission.run_id.str,
                    co2 |-> emission.co2,
                    duration |-> emission.duration,
                    machine_type |-> emission.machine_type.str,
                    badge |-> emission.badge.str,
                    timestamp |-> emission.timestamp.wall]))

-----------------------------------------------------------------------------
(* POST /record                                                             *)

\* What request.json gives the handler: it raises, or it returns a value.
Unreadable == [raises |-> "BadRequest"]
Json(v) == [json |-> v]
Obj(fields) == [obj |-> fields]
Arr(items) == [arr |-> items]

IsObj(v) == "obj" \in DOMAIN v

NoneOnly(data) == data = Null

\* `not data` (line 35): None, or an empty object or array.
Falsy(data) ==
    \/ data = Null
    \/ IsObj(data) /\ DOMAIN data.obj = {}
    \/ "arr" \in DOMAIN data /\ data.arr = <<>>

Reply(status, body) == [status |-> status, body |-> body]

\* record() (lines 33-56): the table and the reply it leaves.
record_outcome(rows, body) ==
    IF "raises" \in DOMAIN body
    THEN [store |-> rows, response |-> Reply(500, [error |-> body.raises])]
    ELSE IF Falsy(body.json)
    THEN [store |-> rows, response |-> Reply(400, [error |-> "No data provided"])]
    ELSE IF ~IsObj(body.json)
    THEN [store |-> rows, response |-> Reply(500, [error |-> "AttributeError"])]
    ELSE LET emission == Emission(body.json.obj)
             done == IF emission.ok THEN commit(rows, emission.v) ELSE emission
         IN  IF done.ok
             THEN [store |-> done.v,
                   response |-> Reply(201, [status |-> "success",
                                            id |-> done.v[Len(done.v)].id])]
             ELSE [store |-> rows, response |-> Reply(500, [error |-> done.err])]

record(body) ==
    \E out \in {record_outcome(store, body)} :
        /\ Len(out.store) <= MaxStore
        /\ store' = out.store
        /\ request' = [op |-> "POST /record", body |-> body]
        /\ response' = out.response
        /\ UNCHANGED <<pc, emissions, badge_counts>>

-----------------------------------------------------------------------------
(* GET /stats                                                               *)

RECURSIVE sum_skip_first(_)
sum_skip_first(co2s) ==
    IF Len(co2s) <= 1 THEN 0 ELSE co2s[Len(co2s)] + sum_skip_first(SubSeq(co2s, 1, Len(co2s) - 1))

\* sum(...) (line 69)
RECURSIVE sum(_)
sum(co2s) == IF co2s = <<>> THEN 0 ELSE Head(co2s) + sum(Tail(co2s))

RECURSIVE gcd(_, _)
gcd(a, b) == IF b = 0 THEN a ELSE gcd(b, a % b)

\* The quotient n / d of true division, as a fraction in lowest terms.
Quotient(n, d) ==
    LET g == gcd(IF n < 0 THEN -n ELSE n, d)
    IN  [num |-> n \div g, den |-> d \div g]

average_off_by_one(total_co2, rows) ==
    IF rows # <<>> THEN Quotient(total_co2, Len(rows) + 1) ELSE Quotient(0, 1)

\* total_co2 / len(emissions) if emissions else 0 (line 70)
average(total_co2, rows) ==
    IF rows # <<>> THEN Quotient(total_co2, Len(rows)) ELSE Quotient(0, 1)

\* The badges stats() counts (line 74) and latest_co2_badge() colours.
KnownBadges == {"Green", "Yellow", "Red"}

count_others_as_red(rows, badge) ==
    Len(SelectSeq(rows, LAMBDA e :
        e.badge = badge \/ (badge = "Red" /\ e.badge \notin KnownBadges)))

\* Emission.query.filter_by(badge=badge).count() (line 73)
count(rows, badge) == Len(SelectSeq(rows, LAMBDA e : e.badge = badge))

\* emissions_data (lines 77-88)
emissions_data(rows) ==
    [i \in 1..Len(rows) |->
        [repo |-> Str(rows[i].repo),
         owner |-> Str(rows[i].owner),
         run_id |-> Str(rows[i].run_id),
         co2 |-> Num(rows[i].co2),
         duration |-> Num(1000 * rows[i].duration),
         machine_type |-> Str(rows[i].machine_type),
         badge |-> Str(rows[i].badge),
         timestamp |-> isoformat(rows[i].timestamp)]]

\* The reply of stats() (lines 69-95) from its list of rows and its counts.
stats_response(rows, counts) ==
    LET total_co2 == sum([i \in 1..Len(rows) |-> rows[i].co2])
    IN  Reply(200, [total_co2 |-> total_co2,
                    average_co2 |-> average(total_co2, rows),
                    badge_counts |-> counts,
                    emissions |-> emissions_data(rows)])

\* stats() answered with no other request in between.
stats ==
    /\ request' = [op |-> "GET /stats"]
    /\ response' = stats_response(store, [b \in KnownBadges |-> count(store, b)])
    /\ UNCHANGED <<store, pc, emissions, badge_counts>>

\* stats() one query at a time: each query sees the table as it is then.
\* Emission.query.all() (line 67)
stats_query_all ==
    /\ pc = "idle"
    /\ emissions' = store
    /\ badge_counts' = <<>>
    /\ pc' = "Green"
    /\ UNCHANGED <<store, request, response>>

\* The order in which the comprehension of lines 72-75 issues its queries.
NextQuery == [Green |-> "Yellow", Yellow |-> "Red", Red |-> "return"]

\* One count query of the comprehension (line 73)
stats_count ==
    /\ pc \in KnownBadges
    /\ badge_counts' = [b \in DOMAIN badge_counts \cup {pc} |->
                          IF b = pc THEN count(store, pc) ELSE badge_counts[b]]
    /\ pc' = NextQuery[pc]
    /\ UNCHANGED <<store, request, response, emissions>>

\* lines 77-95
stats_return ==
    /\ pc = "return"
    /\ request' = [op |-> "GET /stats"]
    /\ response' = stats_response(emissions, badge_counts)
    /\ pc' = "idle"
    /\ emissions' = <<>>
    /\ badge_counts' = <<>>
    /\ UNCHANGED store

-----------------------------------------------------------------------------
(* GET /latest_co2_badge                                                    *)

last_inserted(rows) == {rows[Len(rows)]}

\* order_by(Emission.timestamp.desc()).first() (lines 109-111): a row with
\* no later row; which one of several equally late rows is not fixed by the
\* query.
most_recent(rows) ==
    {rows[i] : i \in {j \in 1..Len(rows) :
                        \A k \in 1..Len(rows) : rows[k].timestamp <= rows[j].timestamp}}

color_map_green_only == [Green |-> "brightgreen"]

\* color_map (lines 118-122)
color_map == [Green |-> "brightgreen", Yellow |-> "yellow", Red |-> "red"]

\* latest_co2_badge() (lines 113-130) for the row `latest`, or for none.
badge_response(found, latest) ==
    LET value == IF ~found THEN "No Data" ELSE latest.badge
        color == IF ~found THEN "lightgrey"
                 ELSE Get(color_map, latest.badge, "lightgrey")
    IN  Reply(200, [schemaVersion |-> 1, label |-> "CO2",
                    message |-> value, color |-> color])

latest_co2_badge ==
    /\ request' = [op |-> "GET /latest_co2_badge"]
    /\ IF store = <<>>
       THEN response' = badge_response(FALSE, <<>>)
       ELSE \E latest \in most_recent(store) : response' = badge_response(TRUE, latest)
    /\ UNCHANGED <<store, pc, emissions, badge_counts>>

-----------------------------------------------------------------------------
(* The requests.                                                            *)

With(f, k, v) == [x \in DOMAIN f \cup {k} |-> IF x = k THEN v ELSE f[x]]
Without(f, k) == [x \in DOMAIN f \ {k} |-> f[x]]

\* A payload as the simulator builds it (src/simulate_runs.py, lines 65-74).
RunPayload ==
    [repo |-> Str("frontend-app"), owner |-> Str("carbon-cost-team"),
     run_id |-> Str("1"), co2 |-> Num(100), duration |-> Num(30000),
     machine_type |-> Str("ubuntu-latest"), badge |-> Str("Green"),
     timestamp |-> Iso(1, "")]

Walls == {1, 5}

\* Runs with each counted badge at each time.
RunPayloads ==
    {With(With(RunPayload, "badge", Str(b)), "timestamp", Iso(w, "")) :
        b \in KnownBadges, w \in Walls}

\* The run payload with one field changed, and a payload of two fields.
VariedPayloads ==
    {With(RunPayload, "co2", v) :
        v \in {Num(-100), Str("0.1"), Str("abc"), Null}}
    \cup {With(RunPayload, "duration", v) :
        v \in {Num(30500), Num(-5000), Str("30"), Str("30.5"), Str("abc")}}
    \cup {With(RunPayload, "timestamp", v) :
        v \in {Iso(1, "Z"), Iso(5, "+05:00"), Str("not-a-date"), Num(1000)}}
    \cup {With(RunPayload, "repo", Null),
          Without(RunPayload, "timestamp"),
          [badge |-> Str("green"), timestamp |-> Iso(5, "Z")]}

Bodies ==
    {Json(Obj(p)) : p \in RunPayloads \cup VariedPayloads}
    \cup {Unreadable, Json(Null), Json(Obj(<<>>)), Json(Arr(<<Num(1000)>>))}

ConcurrentBodies == {Json(Obj(p)) : p \in RunPayloads}

-----------------------------------------------------------------------------
(* Specifications.                                                          *)

Init ==
    /\ store = <<>>
    /\ request = [op |-> "none"]
    /\ response = Reply(0, <<>>)
    /\ pc = "idle"
    /\ emissions = <<>>
    /\ badge_counts = <<>>

Record == \E body \in Bodies : record(body)
Stats == stats
LatestBadge == latest_co2_badge

\* Requests answered one after the other.
Next == Record \/ Stats \/ LatestBadge

Spec == Init /\ [][Next]_vars

RecordConcurrently == \E body \in ConcurrentBodies : record(body)
StatsQueryAll == stats_query_all
StatsCount == stats_count
StatsReturn == stats_return

\* POST /record and GET /latest_co2_badge answered while a stats() is in flight.
NextConcurrent ==
    RecordConcurrently \/ StatsQueryAll \/ StatsCount \/ StatsReturn \/ LatestBadge

SpecConcurrent == Init /\ [][NextConcurrent]_vars

-----------------------------------------------------------------------------
(* Properties.                                                              *)

Recorded == request.op = "POST /record"
StatsAnswered == request.op = "GET /stats"
BadgeAnswered == request.op = "GET /latest_co2_badge"

IsPrefix(s, t) == Len(s) <= Len(t) /\ SubSeq(t, 1, Len(s)) = s

\* The fields of the body of the request just answered, when it is an object.
Submitted == request.body.json.obj
HasObject == "json" \in DOMAIN request.body /\ IsObj(request.body.json)

\* C1: every POST /record answered 201 leaves a row that GET /stats lists
\* exactly once with each submitted field equal to the submitted value, and
\* no step removes or alters a stored row.
C1_RoundTrip ==
    [][/\ IsPrefix(store, store')
       /\ (request'.op = "POST /record" /\ response'.status = 201) =>
            LET id == response'.body.id
                listed == emissions_data(store')
            IN  /\ Cardinality({i \in 1..Len(store') : store'[i].id = id}) = 1
                /\ \A k \in DOMAIN request'.body.json.obj :
                      listed[id][k] = request'.body.json.obj[k]]_vars

\* A numeric field as the claim means it: a number or a decimal text.
Numeric(v) == IsNum(v) \/ (IsText(v) /\ v.str \in DOMAIN NumericText)

\* The payloads C2 names: no timestamp, a timestamp that is no ISO-8601
\* text, a co2 or a duration that is not numeric.
FailsValidation(data) ==
    \/ "timestamp" \notin DOMAIN data
    \/ ~IsIso(data.timestamp)
    \/ "co2" \in DOMAIN data /\ ~Numeric(data.co2)
    \/ "duration" \in DOMAIN data /\ ~Numeric(data.duration)

\* C2: a POST /record whose payload fails validation is not answered 201 and
\* leaves the table as it was; any POST /record that is not answered 201
\* leaves the table as it was; every POST /record appends one row or none.
C2_RejectedLeavesStore ==
    [][request'.op = "POST /record" =>
        /\ ("json" \in DOMAIN request'.body /\ IsObj(request'.body.json)
              /\ DOMAIN request'.body.json.obj # {}
              /\ FailsValidation(request'.body.json.obj))
            => (response'.status = 500 /\ store' = store)
        /\ response'.status # 201 => store' = store
        /\ response'.status = 201 => Len(store') = Len(store) + 1
        /\ IsPrefix(store, store')]_vars

\* C2's case: a payload without timestamp was refused while rows are stored.
C2_Witness ==
    /\ Recorded /\ HasObject
    /\ DOMAIN Submitted # {} /\ "timestamp" \notin DOMAIN Submitted
    /\ response.status = 500
    /\ Len(store) = 2

\* A request.json that delivered nothing at all.
BodyMissing == request.body = Json(Null)

\* A request.json that delivered no data: nothing, or an empty value.
BodyEmpty ==
    \/ BodyMissing
    \/ HasObject /\ DOMAIN Submitted = {}
    \/ "json" \in DOMAIN request.body /\ request.body.json = Arr(<<>>)

\* What record() accepts, stated on the payload: an object whose co2 (if
\* given) is numeric, whose duration (if given) is a number or an integer
\* literal, whose timestamp is an ISO-8601 text, and whose string fields
\* are not null.
Acceptable ==
    /\ HasObject
    /\ "co2" \in DOMAIN Submitted => Numeric(Submitted.co2)
    /\ "duration" \in DOMAIN Submitted =>
          \/ IsNum(Submitted.duration)
          \/ IsText(Submitted.duration) /\ Submitted.duration.str \in IntegerText
    /\ "timestamp" \in DOMAIN Submitted
    /\ IsIso(Submitted.timestamp)
    /\ Submitted.timestamp.tz \in {"", "Z", "+00:00", "+05:00"}
    /\ \A c \in StringColumns : c \in DOMAIN Submitted => Submitted[c] # Null

AnswerShape ==
    /\ response.status \in {201, 400, 500}
    /\ response.status # 201 => DOMAIN response.body = {"error"}
    /\ response.status = 201 =>
          /\ response.body.status = "success"
          /\ response.body.id = Len(store)
          /\ store[Len(store)].id = response.body.id

\* C3 as stated: 400 if and only if the body is missing, 500 for a present
\* body that fails validation or storage, 201 for a valid request.
C3_Original ==
    Recorded =>
        /\ AnswerShape
        /\ response.status = 400 <=> BodyMissing
        /\ response.status = 201 <=> (~BodyMissing /\ Acceptable)

\* C3, amended: 400 if and only if request.json delivers no data (null or
\* an empty value such as {}); 500 with an error body if the body cannot be
\* read or is non-empty and fails validation or storage; 201 with status
\* "success" and the new id otherwise.
C3_StatusCodes ==
    Recorded =>
        /\ AnswerShape
        /\ response.status = 400 <=> BodyEmpty
        /\ response.status = 201 <=> (~BodyEmpty /\ Acceptable)

\* C3's case: the empty object is answered 400 although a body was sent.
C3_Witness ==
    /\ Recorded
    /\ request.body = Json(Obj(<<>>))
    /\ response.status = 400
    /\ store # <<>>

RECURSIVE Co2Over(_)
Co2Over(ids) ==
    IF ids = {} THEN 0
    ELSE LET i == CHOOSE j \in ids : TRUE
         IN  store[i].co2 + Co2Over(ids \ {i})

\* C4: total_co2 of GET /stats is the sum of the co2 of all stored rows, 0
\* for the empty table.
C4_TotalCo2 ==
    StatsAnswered =>
        /\ response.status = 200
        /\ response.body.total_co2 = Co2Over(1..Len(store))
        /\ store = <<>> => response.body.total_co2 = 0

\* C4's case: three rows of different co2 were summed.
C4_Witness ==
    /\ StatsAnswered
    /\ Len(store) = 3
    /\ {store[i].co2 : i \in 1..3} = {100, 0, -100}
    /\ response.body.total_co2 = 0

\* C5: average_co2 of GET /stats is total_co2 divided by the number of
\* stored rows, and 0 with status 200 for the empty table.
C5_AverageCo2 ==
    StatsAnswered =>
        /\ response.status = 200
        /\ response.body.average_co2.den > 0
        /\ IF store = <<>>
           THEN response.body.average_co2.num = 0
           ELSE response.body.average_co2.num * Len(store)
                    = response.body.total_co2 * response.body.average_co2.den

\* C5's case: 200 thousandths over three rows, a quotient that is no integer.
C5_Witness ==
    /\ StatsAnswered
    /\ Len(store) = 3
    /\ response.body.total_co2 = 200
    /\ response.body.average_co2 = [num |-> 200, den |-> 3]

Holding(b) == {i \in 1..Len(store) : store[i].badge = b}

\* C6: badge_counts of GET /stats has, for Green, Yellow and Red, the number
\* of stored rows with exactly that badge; rows with another badge are
\* listed in emissions and counted under none of the three.
C6_BadgeCounts ==
    StatsAnswered =>
        LET counts == response.body.badge_counts
            other == {i \in 1..Len(store) :
                        store[i].badge \notin {"Green", "Yellow", "Red"}}
        IN  /\ DOMAIN counts = {"Green", "Yellow", "Red"}
            /\ \A b \in {"Green", "Yellow", "Red"} : counts[b] = Cardinality(Holding(b))
            /\ counts.Green + counts.Yellow + counts.Red
                  = Len(store) - Cardinality(other)
            /\ Len(response.body.emissions) = Len(store)
            /\ \A i \in other : response.body.emissions[i].badge = Str(store[i].badge)

\* C6's case: a row with badge "green" is listed and counted nowhere.
C6_Witness ==
    /\ StatsAnswered
    /\ Len(store) = 3
    /\ Holding("green") # {} /\ Holding("Green") # {} /\ Holding("Red") # {}
    /\ response.body.badge_counts = [Green |-> 1, Yellow |-> 0, Red |-> 1]

\* C7: on a non-empty table the message of GET /latest_co2_badge is the badge
\* of a stored row whose timestamp no other row exceeds, whatever the order
\* of insertion.
C7_LatestByTimestamp ==
    (BadgeAnswered /\ store # <<>>) =>
        \E i \in 1..Len(store) :
            /\ response.body.message = store[i].badge
            /\ \A k \in 1..Len(store) : store[k].timestamp <= store[i].timestamp

\* C7's case: the older row was inserted last, the newer row's badge is shown.
C7_Witness ==
    /\ BadgeAnswered
    /\ Len(store) = 2
    /\ store[2].timestamp < store[1].timestamp
    /\ store[2].badge = "Green" /\ store[1].badge = "Red"
    /\ response.body.message = "Red"

\* C8: GET /latest_co2_badge answers schemaVersion 1 and label "CO2"; on the
\* empty table message "No Data" and color "lightgrey"; otherwise the color
\* is brightgreen, yellow or red for Green, Yellow or Red and lightgrey for
\* every other message.
C8_BadgeShape ==
    BadgeAnswered =>
        /\ response.status = 200
        /\ response.body.schemaVersion = 1
        /\ response.body.label = "CO2"
        /\ store = <<>> =>
              response.body.message = "No Data" /\ response.body.color = "lightgrey"
        /\ store # <<>> =>
              response.body.color =
                  CASE response.body.message = "Green" -> "brightgreen"
                    [] response.body.message = "Yellow" -> "yellow"
                    [] response.body.message = "Red" -> "red"
                    [] OTHER -> "lightgrey"

\* C8's case: a Yellow row is the latest and is shown yellow.
C8_Witness ==
    /\ BadgeAnswered
    /\ store # <<>>
    /\ response.body.message = "Yellow"
    /\ response.body.color = "yellow"

\* C9: every stored row has co2 >= 0 and duration >= 0.
C9_NonNegative ==
    \A i \in 1..Len(store) : store[i].co2 >= 0 /\ store[i].duration >= 0

\* C10: in every GET /stats reply, also with POST /record committing while
\* the handler runs, total_co2, average_co2 and badge_counts describe the
\* rows listed in that reply's emissions.
C10_SnapshotConsistent ==
    StatsAnswered =>
        LET listed == response.body.emissions
            n == Len(listed)
        IN  /\ response.body.total_co2 = sum([i \in 1..n |-> listed[i].co2.num])
            /\ response.body.average_co2 = average(response.body.total_co2, listed)
            /\ \A b \in {"Green", "Yellow", "Red"} :
                  response.body.badge_counts[b]
                      = Cardinality({i \in 1..n : listed[i].badge = Str(b)})

====
